---------------------------- MODULE Spec2Model ----------------------------
(***************************************************************************)
(* A model of the caching proxy: the on-disk Store (internal/cache), the   *)
(* key derivation, the header handling and the request handler of          *)
(* internal/proxy.                                                         *)
(*                                                                         *)
(* Go strings and []byte are sequences of bytes (0..255).  A file path is  *)
(* the sequence of its components, each a byte string.  The content of a   *)
(* file is a sequence of JSON tokens (see Marshal).                        *)
(***************************************************************************)
EXTENDS Integers, Sequences, FiniteSets, TLC

(***************************************************************************)
(* Byte strings                                                            *)
(***************************************************************************)
\* "Cache-Control", "Connection", "X-Cache", "Authorization", "Accept",
\* "Content-Length", "X-Note", "Set-Cookie", "Content-Type",
\* "X-Content-Type-Options"
CacheControl == <<67,97,99,104,101,45,67,111,110,116,114,111,108>>
Connection == <<67,111,110,110,101,99,116,105,111,110>>
XCache == <<88,45,67,97,99,104,101>>
Authorization == <<65,117,116,104,111,114,105,122,97,116,105,111,110>>
Accept == <<65,99,99,101,112,116>>
ContentLength == <<67,111,110,116,101,110,116,45,76,101,110,103,116,104>>
XNote == <<88,45,78,111,116,101>>
SetCookie == <<83,101,116,45,67,111,111,107,105,101>>
ContentType == <<67,111,110,116,101,110,116,45,84,121,112,101>>
XContentTypeOptions == <<88,45,67,111,110,116,101,110,116,45,84,121,112,101,45,79,112,116,105,111,110,115>>
\* "no-store", "HIT", "MISS", "GET", "POST", ".json", ".tmp"
NoStore == <<110,111,45,115,116,111,114,101>>
HIT == <<72,73,84>>
MISS == <<77,73,83,83>>
GET == <<71,69,84>>
POST == <<80,79,83,84>>
DotJson == <<46,106,115,111,110>>
DotTmp == <<46,116,109,112>>

Max2(a, b) == IF a >= b THEN a ELSE b
Min2(a, b) == IF a <= b THEN a ELSE b

\* strings.HasPrefix, strings.HasSuffix
HasPrefix(s, p) == Len(s) >= Len(p) /\ SubSeq(s, 1, Len(p)) = p
HasSuffix(s, p) == Len(s) >= Len(p) /\ SubSeq(s, Len(s) - Len(p) + 1, Len(s)) = p

\* The ASCII white space strings.TrimSpace removes: \t \n \v \f \r and space.
IsSpace(b) == b \in {9, 10, 11, 12, 13, 32}

RECURSIVE TrimLeft(_)
TrimLeft(s) == IF s # <<>> /\ IsSpace(s[1]) THEN TrimLeft(Tail(s)) ELSE s

RECURSIVE TrimRight(_)
TrimRight(s) ==
    IF s # <<>> /\ IsSpace(s[Len(s)]) THEN TrimRight(SubSeq(s, 1, Len(s) - 1)) ELSE s

TrimSpace(s) == TrimRight(TrimLeft(s))

\* strings.Split(s, ","): the parts between the separators, at least one.
RECURSIVE SplitAcc(_, _, _)
SplitAcc(s, sep, cur) ==
    IF s = <<>> THEN <<cur>>
    ELSE IF s[1] = sep THEN <<cur>> \o SplitAcc(Tail(s), sep, <<>>)
    ELSE SplitAcc(Tail(s), sep, Append(cur, s[1]))

Split(s, sep) == SplitAcc(s, sep, <<>>)

\* ASCII case folding, the part of strings.EqualFold that ASCII text reaches.
ToLower(b) == IF b \in 65..90 THEN b + 32 ELSE b
ToUpper(b) == IF b \in 97..122 THEN b - 32 ELSE b
LowerStr(s) == [i \in 1..Len(s) |-> ToLower(s[i])]
EqualFold(a, b) == LowerStr(a) = LowerStr(b)

\* Byte-wise order of Go strings (sort.Strings, the key order of json.Marshal).
RECURSIVE LexLess(_, _)
LexLess(a, b) ==
    IF b = <<>> THEN FALSE
    ELSE IF a = <<>> THEN TRUE
    ELSE IF a[1] # b[1] THEN a[1] < b[1]
    ELSE LexLess(Tail(a), Tail(b))

RECURSIVE InsertSorted(_, _)
InsertSorted(sorted, x) ==
    IF sorted = <<>> THEN <<x>>
    ELSE IF LexLess(x, sorted[1]) THEN <<x>> \o sorted
    ELSE <<sorted[1]>> \o InsertSorted(Tail(sorted), x)

\* sort.Strings
RECURSIVE SortStrings(_)
SortStrings(ss) ==
    IF ss = <<>> THEN <<>> ELSE InsertSorted(SortStrings(Tail(ss)), ss[1])

\* The strings of a finite set in increasing order.
RECURSIVE SetToSorted(_)
SetToSorted(S) ==
    IF S = {} THEN <<>>
    ELSE LET m == CHOOSE x \in S : \A y \in S : y = x \/ LexLess(x, y)
         IN  <<m>> \o SetToSorted(S \ {m})

(***************************************************************************)
(* http.Header: a map from header name to the list of its values.  The     *)
(* methods canonicalise the name they are given.                           *)
(***************************************************************************)
\* The bytes of an HTTP token (httpguts.IsTokenRune), as far as ASCII letters,
\* digits and the punctuation of header names go.
TokenBytes ==
    (48..57) \cup (65..90) \cup (97..122)
        \cup {33, 35, 36, 37, 38, 39, 42, 43, 45, 46, 94, 95, 96, 124, 126}

IsTokenByte(b) == b \in TokenBytes

\* textproto.CanonicalMIMEHeaderKey: upper case at the start and after "-",
\* lower case elsewhere; a name with a byte that is no token byte is left alone.
CanonicalMIMEHeaderKey(s) ==
    IF \E i \in 1..Len(s) : ~IsTokenByte(s[i]) THEN s
    ELSE [i \in 1..Len(s) |->
             IF i = 1 \/ s[i - 1] = 45 THEN ToUpper(s[i]) ELSE ToLower(s[i])]

EmptyHeader == <<>>

HeaderGet(h, name) ==
    LET k == CanonicalMIMEHeaderKey(name)
    IN  IF k \in DOMAIN h /\ h[k] # <<>> THEN h[k][1] ELSE <<>>

HeaderDel(h, name) ==
    LET k == CanonicalMIMEHeaderKey(name)
    IN  [n \in DOMAIN h \ {k} |-> h[n]]

HeaderSet(h, name, value) ==
    LET k == CanonicalMIMEHeaderKey(name)
    IN  [n \in DOMAIN h \cup {k} |-> IF n = k THEN <<value>> ELSE h[n]]

HeaderAdd(h, name, value) ==
    LET k == CanonicalMIMEHeaderKey(name)
    IN  [n \in DOMAIN h \cup {k} |->
            IF n = k THEN (IF k \in DOMAIN h THEN Append(h[k], value) ELSE <<value>>)
            ELSE h[n]]

(***************************************************************************)
(* Header handling of the proxy                                            *)
(***************************************************************************)
\* "Connection", "Proxy-Connection", "Keep-Alive", "Proxy-Authenticate",
\* "Proxy-Authorization", "TE", "Trailer", "Transfer-Encoding", "Upgrade"
hopHeaders ==
    << <<67,111,110,110,101,99,116,105,111,110>>,
       <<80,114,111,120,121,45,67,111,110,110,101,99,116,105,111,110>>,
       <<75,101,101,112,45,65,108,105,118,101>>,
       <<80,114,111,120,121,45,65,117,116,104,101,110,116,105,99,97,116,101>>,
       <<80,114,111,120,121,45,65,117,116,104,111,114,105,122,97,116,105,111,110>>,
       <<84,69>>,
       <<84,114,97,105,108,101,114>>,
       <<84,114,97,110,115,102,101,114,45,69,110,99,111,100,105,110,103>>,
       <<85,112,103,114,97,100,101>> >>

\* h.Del(name) for every name of names.
DelAll(h, names) ==
    LET ks == {CanonicalMIMEHeaderKey(names[i]) : i \in 1..Len(names)}
    IN  [n \in DOMAIN h \ ks |-> h[n]]

\* The names a Connection value nominates: its comma-separated parts, trimmed,
\* the empty ones dropped.
RECURSIVE NonEmptyTrimmed(_)
NonEmptyTrimmed(parts) ==
    IF parts = <<>> THEN <<>>
    ELSE LET name == TrimSpace(parts[1])
         IN  (IF name # <<>> THEN <<name>> ELSE <<>>) \o NonEmptyTrimmed(Tail(parts))

\* The keys h.Del removes for the names of hopHeaders.
hopHeaderKeys == {CanonicalMIMEHeaderKey(hopHeaders[i]) : i \in 1..Len(hopHeaders)}

\* A filter that stops after the first header it removes.
filterFirstHop(h) ==
    LET there == {i \in 1..Len(hopHeaders) : CanonicalMIMEHeaderKey(hopHeaders[i]) \in DOMAIN h}
        i0 == CHOOSE i \in there : \A j \in there : i <= j
    IN  IF there = {} THEN h
        ELSE [n \in DOMAIN h \ {CanonicalMIMEHeaderKey(hopHeaders[i0])} |-> h[n]]

filterHopByHop(h) ==
    LET c == HeaderGet(h, Connection)
        h1 == IF c # <<>> THEN DelAll(h, NonEmptyTrimmed(Split(c, 44))) ELSE h
    IN  [n \in DOMAIN h1 \ hopHeaderKeys |-> h1[n]]

containsToken(v, token) ==
    LET parts == Split(v, 44)
    IN  \E i \in 1..Len(parts) : EqualFold(TrimSpace(parts[i]), token)

\* reqNoStore(r) and resNoStore(res), given the header of r and of res.
reqNoStore(header) == containsToken(HeaderGet(header, CacheControl), NoStore)

resNoStore(header) == containsToken(HeaderGet(header, CacheControl), NoStore)

\* copyHeaders(dst, src): dst.Add of every value of src, in order.
RECURSIVE AddAll(_, _, _)
AddAll(h, name, values) ==
    IF values = <<>> THEN h
    ELSE AddAll(HeaderAdd(h, name, values[1]), name, Tail(values))

RECURSIVE CopyNames(_, _, _)
CopyNames(dst, src, names) ==
    IF names = <<>> THEN dst
    ELSE CopyNames(AddAll(dst, names[1], src[names[1]]), src, Tail(names))

copyHeaders(dst, src) == CopyNames(dst, src, SetToSorted(DOMAIN src))

\* cache.CloneHeaders: a copy with every list of values sorted.
CloneHeaders(h) == [n \in DOMAIN h |-> SortStrings(h[n])]

(***************************************************************************)
(* Entry and its JSON form                                                 *)
(***************************************************************************)
Entry(status, header, body) == [Status |-> status, Header |-> header, Body |-> body]

\* The value json.Unmarshal leaves in a field the input does not name.
ZeroEntry == Entry(0, EmptyHeader, <<>>)

\* encoding/json writes a Go string as its code points, an invalid byte as
\* U+FFFD; reading gives the UTF-8 encoding of the code points back.
IsCont(b) == b \in 128..191

RECURSIVE Utf8Decode(_)
Utf8Decode(s) ==
    IF s = <<>> THEN <<>>
    ELSE IF s[1] < 128 THEN <<s[1]>> \o Utf8Decode(Tail(s))
    ELSE IF s[1] \in 194..223 /\ Len(s) >= 2 /\ IsCont(s[2])
        THEN <<(s[1] - 192) * 64 + (s[2] - 128)>> \o Utf8Decode(SubSeq(s, 3, Len(s)))
    ELSE IF /\ s[1] \in 224..239 /\ Len(s) >= 3 /\ IsCont(s[2]) /\ IsCont(s[3])
            /\ (s[1] = 224 => s[2] >= 160) /\ (s[1] = 237 => s[2] <= 159)
        THEN <<(s[1] - 224) * 4096 + (s[2] - 128) * 64 + (s[3] - 128)>>
                 \o Utf8Decode(SubSeq(s, 4, Len(s)))
    ELSE IF /\ s[1] \in 240..244 /\ Len(s) >= 4
            /\ IsCont(s[2]) /\ IsCont(s[3]) /\ IsCont(s[4])
            /\ (s[1] = 240 => s[2] >= 144) /\ (s[1] = 244 => s[2] <= 143)
        THEN <<(s[1] - 240) * 262144 + (s[2] - 128) * 4096
                   + (s[3] - 128) * 64 + (s[4] - 128)>>
                 \o Utf8Decode(SubSeq(s, 5, Len(s)))
    ELSE <<65533>> \o Utf8Decode(Tail(s))

RECURSIVE Utf8Encode(_)
Utf8Encode(cps) ==
    IF cps = <<>> THEN <<>>
    ELSE LET c == cps[1]
             bytes ==
                 IF c < 128 THEN <<c>>
                 ELSE IF c < 2048 THEN <<192 + (c \div 64), 128 + (c % 64)>>
                 ELSE IF c < 65536
                     THEN <<224 + (c \div 4096), 128 + ((c \div 64) % 64), 128 + (c % 64)>>
                 ELSE <<240 + (c \div 262144), 128 + ((c \div 4096) % 64),
                        128 + ((c \div 64) % 64), 128 + (c % 64)>>
         IN  bytes \o Utf8Encode(Tail(cps))

\* base64.StdEncoding, the JSON form of a []byte: sextets, 64 for the padding.
RECURSIVE Base64Encode(_)
Base64Encode(b) ==
    IF b = <<>> THEN <<>>
    ELSE IF Len(b) = 1 THEN <<b[1] \div 4, (b[1] % 4) * 16, 64, 64>>
    ELSE IF Len(b) = 2
        THEN <<b[1] \div 4, (b[1] % 4) * 16 + (b[2] \div 16), (b[2] % 16) * 4, 64>>
    ELSE <<b[1] \div 4, (b[1] % 4) * 16 + (b[2] \div 16),
           (b[2] % 16) * 4 + (b[3] \div 64), b[3] % 64>>
             \o Base64Encode(SubSeq(b, 4, Len(b)))

RECURSIVE Base64Decode(_)
Base64Decode(s) ==
    IF Len(s) < 4 THEN <<>>
    ELSE LET b1 == s[1] * 4 + (s[2] \div 16)
             b2 == (s[2] % 16) * 16 + (s[3] \div 4)
             b3 == (s[3] % 4) * 64 + s[4]
         IN  IF s[3] = 64 THEN <<b1>>
             ELSE IF s[4] = 64 THEN <<b1, b2>>
             ELSE <<b1, b2, b3>> \o Base64Decode(SubSeq(s, 5, Len(s)))

\* A token of a serialized entry: "{", "}", "null", or one member of the JSON
\* object: Status (v = <<n>>), Body (v = the sextets) or one name of Header
\* (k = the name, v = its values, each as code points).
Tok(t, k, v) == [t |-> t, k |-> k, v |-> v]
TokOpen == Tok("{", <<>>, <<>>)
TokClose == Tok("}", <<>>, <<>>)
TokNull == Tok("null", <<>>, <<>>)

HeaderToks(h) ==
    LET names == SetToSorted(DOMAIN h)
    IN  [i \in 1..Len(names) |->
            Tok("Header", Utf8Decode(names[i]),
                [j \in 1..Len(h[names[i]]) |-> Utf8Decode(h[names[i]][j])])]

\* json.Marshal(e)
Marshal(e) ==
    <<TokOpen, Tok("Status", <<>>, << <<e.Status>> >>)>>
        \o HeaderToks(e.Header)
        \o <<Tok("Body", <<>>, <<Base64Encode(e.Body)>>), TokClose>>

RECURSIVE ApplyToks(_, _)
ApplyToks(e, toks) ==
    IF toks = <<>> THEN e
    ELSE LET x == toks[1]
             e1 == IF x.t = "Status" THEN [e EXCEPT !.Status = x.v[1][1]]
                   ELSE IF x.t = "Body" THEN [e EXCEPT !.Body = Base64Decode(x.v[1])]
                   ELSE IF x.t = "Header"
                       THEN [e EXCEPT !.Header =
                                [n \in DOMAIN e.Header \cup {Utf8Encode(x.k)} |->
                                    IF n = Utf8Encode(x.k)
                                    THEN [j \in 1..Len(x.v) |-> Utf8Encode(x.v[j])]
                                    ELSE e.Header[n]]]
                   ELSE e
         IN  ApplyToks(e1, Tail(toks))

\* Whether data is one complete JSON value: null, or an object whose braces
\* match around its members.
ValidJSON(data) ==
    \/ data = <<TokNull>>
    \/ /\ Len(data) >= 2
       /\ data[1] = TokOpen
       /\ data[Len(data)] = TokClose
       /\ \A i \in 2..(Len(data) - 1) : data[i].t \in {"Status", "Header", "Body", "other"}

\* json.Unmarshal(data, &e) into a zero Entry: an error for anything that is
\* not one complete JSON value; members the input does not name keep their
\* zero value and members Entry does not have are skipped.
Unmarshal(data) ==
    IF ~ValidJSON(data) THEN [ok |-> FALSE, e |-> ZeroEntry]
    ELSE IF data = <<TokNull>> THEN [ok |-> TRUE, e |-> ZeroEntry]
    ELSE [ok |-> TRUE, e |-> ApplyToks(ZeroEntry, SubSeq(data, 2, Len(data) - 1))]

(***************************************************************************)
(* Paths and keys                                                          *)
(***************************************************************************)
\* The number of hexadecimal digits of a key in the model (64 in the program).
KeyLen == 4
\* The number of keys the callers of the Store use.
NumKeys == 2
\* The number of concurrent tasks (goroutines).
NumTasks == 2
\* The number of Store calls of one behaviour.
MaxCalls == 3
\* The number of tokens one read of a file returns at most.
ReadChunk == 3

Tasks == 1..NumTasks

HexDigit(d) == IF d < 10 THEN 48 + d ELSE 87 + d

RECURSIVE Pow16(_)
Pow16(n) == IF n = 0 THEN 1 ELSE 16 * Pow16(n - 1)

\* hex.EncodeToString of a digest: the n-th digest, spread over the key space
\* by an odd multiplier (a bijection modulo a power of two).
HexKey(n) ==
    LET x == (n * 40503) % Pow16(KeyLen)
    IN  [i \in 1..KeyLen |-> HexDigit((x \div Pow16(KeyLen - i)) % 16)]

StoreKeys == {HexKey(i) : i \in 1..NumKeys}

\* The cache directory, "c".
CacheDir == << <<99>> >>

\* filepath.Join of path elements without separators or dots: the empty
\* elements are dropped.
Join(elems) == SelectSeq(elems, LAMBDA x : x # <<>>)

ShardPath(cacheDir, key) ==
    LET p1 == IF Len(key) >= 2 THEN <<SubSeq(key, 1, 2)>> ELSE <<>>
        p2 == IF Len(key) >= 4 THEN <<SubSeq(key, 3, 4)>> ELSE <<>>
    IN  Join(cacheDir \o p1 \o p2 \o <<key>>)

\* path + suffix: the suffix extends the last component.
PathPlus(path, suffix) == [path EXCEPT ![Len(path)] = @ \o suffix]

filePathForKey(key) == PathPlus(ShardPath(CacheDir, key), DotJson)

\* The temporary file of Set.
\* A Set that writes the entry file in place.
tmpPathSame(path) == path

tmpPathFor(path) == PathPlus(path, DotTmp)

\* filepath.Dir
Dir(path) == SubSeq(path, 1, Len(path) - 1)

\* filepath.Ext: the suffix of the last component from its last dot on.
Ext(path) ==
    LET name == path[Len(path)]
        dots == {i \in 1..Len(name) : name[i] = 46}
    IN  IF dots = {} THEN <<>>
        ELSE SubSeq(name, CHOOSE i \in dots : \A j \in dots : j <= i, Len(name))

\* The directories os.MkdirAll(dir) makes sure of: dir and its ancestors.
Ancestors(dir) == {SubSeq(dir, 1, n) : n \in 1..Len(dir)}

(***************************************************************************)
(* Requests, responses and the cache key                                   *)
(***************************************************************************)
\* An inbound request: r.Method, r.URL.Path (decoded), r.URL.RawQuery, r.Header.
Request(method, path, query, header) ==
    [Method |-> method, Path |-> path, RawQuery |-> query, Header |-> header]
NoRequest == Request(<<>>, <<>>, <<>>, EmptyHeader)

\* A response: status code, header, body.
Response(status, header, body) == [Status |-> status, Header |-> header, Body |-> body]
NoResponse == Response(0, EmptyHeader, <<>>)

\* The origin base URL "http://o/v" as url.Parse gives it: scheme and host,
\* and the path.
OriginBase == [SchemeHost |-> <<104,116,116,112,58,47,47,111>>, Path |-> <<47,118>>]

\* "/healthz", the pattern of the liveness handler.
HealthzPath == <<47,104,101,97,108,116,104,122>>

singleJoiningSlash(a, b) ==
    LET aslash == HasSuffix(a, <<47>>)
        bs == HasPrefix(b, <<47>>)
    IN  IF aslash /\ bs THEN a \o Tail(b)
        ELSE IF ~aslash /\ ~bs THEN a \o <<47>> \o b
        ELSE a \o b

\* The bytes url.URL.String leaves as they are in a path: letters, digits and
\* - _ . ~ $ & + , / : ; = @ ! ' ( ) *
PathSafeBytes ==
    (48..57) \cup (65..90) \cup (97..122)
        \cup {45, 95, 46, 126, 36, 38, 43, 44, 47, 58, 59, 61, 64, 33, 39, 40, 41, 42}

PathSafe(b) == b \in PathSafeBytes

UpperHex(d) == IF d < 10 THEN 48 + d ELSE 55 + d

\* The escaped form of a path: %XX for every other byte.
RECURSIVE EscapePath(_)
EscapePath(p) ==
    IF p = <<>> THEN <<>>
    ELSE (IF PathSafe(p[1]) THEN <<p[1]>>
          ELSE <<37, UpperHex(p[1] \div 16), UpperHex(p[1] % 16)>>) \o EscapePath(Tail(p))

\* u.String() of the URL the origin sees.
URLString(base, path, query) ==
    base.SchemeHost \o EscapePath(path) \o (IF query # <<>> THEN <<63>> \o query ELSE <<>>)

\* strings.Join([]string{r.Method, u.String(), accept}, "\n")
KeyMaterial(base, r) ==
    r.Method \o <<10>>
        \o URLString(base, singleJoiningSlash(base.Path, r.Path), r.RawQuery)
        \o <<10>> \o HeaderGet(r.Header, Accept)

\* fmt.Sprintf("%d", n)
RECURSIVE Itoa(_)
Itoa(n) == IF n < 10 THEN <<48 + n>> ELSE Itoa(n \div 10) \o <<48 + (n % 10)>>

(***************************************************************************)
(* The state                                                               *)
(***************************************************************************)
VARIABLES
    files,      \* the directory entries of regular files: path -> inode
    inodes,     \* inode -> content, of the inodes a path or an open file names
    dirs,       \* the directories that exist
    noperm,     \* the files whose mode lets nobody open them
    locks,      \* DiskCache.locks: key -> mutex
    locked,     \* the mutexes that are locked
    tasks,      \* the state of each task
    pub,        \* history: key -> what the last rename or removal published
    calls,      \* history: the number of Store calls made
    c,          \* Run's parameter c: TRUE for a Store, FALSE for nil
    handlers,   \* the request each task is handling and how far it has come
    first,      \* history: key -> the request that first filled the key
    served,     \* history: the number of requests accepted
    fn          \* a function called on its own: its name, arguments, results

vars == <<files, inodes, dirs, noperm, locks, locked, tasks, pub, calls,
          c, handlers, first, served, fn>>

\* A mutex is told from the others by the key and the task that allocated it.
Mutex(key, by) == [key |-> key, by |-> by]
NoMutex == Mutex(<<>>, 0)

\* What a key publishes: an entry passed to Set, or nothing (by tells what
\* took the entry away: "Delete", "Clear", or "none" for a key never set).
Published(e) == [present |-> TRUE, e |-> e, by |-> "Set"]
Unpublished(by) == [present |-> FALSE, e |-> ZeroEntry, by |-> by]
Absent == Unpublished("none")

PubOf(p, key) == IF key \in DOMAIN p THEN p[key] ELSE Absent

\* The results of the Store's methods: Get gives (e, found, err), Set and
\* Delete give err, Clear gives (n, err); err = "" stands for nil.
Result(e, found, n, err) == [e |-> e, found |-> found, n |-> n, err |-> err]
NoResult == Result(ZeroEntry, FALSE, 0, "")

\* A handler that has no request: hpc is the handler's position, viaCache
\* tells the per-request proxy from the base proxy, ores is what the origin
\* sent, res the response after ModifyResponse, out what the client gets;
\* logs is what the request made log.Printf write ("access" for the line of
\* the request, "proxy error" for that of the ErrorHandler); found, failed,
\* fault, setErr, nOrigin, nGet, nSet, prior, priorOut, hasPrior, stored0,
\* alone and absent0 are history (failed: the ErrorHandler answered; fault:
\* what went wrong with the origin, "" for nothing; setErr: what c.Set
\* returned).
IdleHandler ==
    [hpc |-> "none", req |-> NoRequest, key |-> <<>>, viaCache |-> FALSE,
     ores |-> NoResponse, res |-> NoResponse, out |-> NoResponse,
     found |-> FALSE, failed |-> FALSE, fault |-> "", nOrigin |-> 0, nGet |-> 0, nSet |-> 0,
     prior |-> NoResponse, hasPrior |-> FALSE, alone |-> TRUE, absent0 |-> FALSE,
     priorOut |-> NoResponse, stored0 |-> FALSE, setErr |-> "", logs |-> <<>>]

\* The Store used on its own: no request is served.
\* No function is called on its own.
NoCall == [op |-> "", args |-> <<>>, ret |-> <<>>]

NoProxy ==
    /\ c = TRUE
    /\ handlers = [t \in Tasks |-> IdleHandler]
    /\ first = <<>>
    /\ served = 0
    /\ fn = NoCall

IdleTask ==
    [pc |-> "idle", op |-> "none", key |-> <<>>, argNil |-> FALSE, arg |-> ZeroEntry,
     fd |-> 0, buf |-> <<>>, mu |-> NoMutex, work |-> <<>>, count |-> 0,
     ret |-> NoResult, seen |-> {}, alone |-> FALSE, n0 |-> 0, f0 |-> 0,
     n1 |-> 0, f1 |-> 0]

\* The inodes in use and the smallest free one.
OpenInodes(ts) == {ts[t].fd : t \in Tasks} \ {0}
LiveInodes(fs, ts) == {fs[p] : p \in DOMAIN fs} \cup OpenInodes(ts)
FreshInode(fs, ts) ==
    CHOOSE i \in 1..(Cardinality(LiveInodes(fs, ts)) + 1) : i \notin LiveInodes(fs, ts)

\* The inode table once the inodes nothing names any more are dropped.
Collect(ino, fs, ts) == [i \in DOMAIN ino \cap LiveInodes(fs, ts) |-> ino[i]]

Unlink(fs, path) == [q \in DOMAIN fs \ {path} |-> fs[q]]

\* The history of a publication at key: every Get of key in progress may
\* return it.
Note(ts, key, p) ==
    [t \in Tasks |->
        IF ts[t].op = "Get" /\ ts[t].key = key /\ ts[t].pc \in {"get_open", "get_read"}
        THEN [ts[t] EXCEPT !.seen = @ \cup {p}]
        ELSE ts[t]]

(***************************************************************************)
(* DiskCache                                                               *)
(***************************************************************************)
InProgress(r) == r.pc \notin {"idle", "ret"}

Returned(r, res) ==
    [r EXCEPT !.pc = "ret", !.ret = res, !.fd = 0, !.mu = NoMutex, !.buf = <<>>,
              !.work = <<>>, !.count = 0]

\* A task enters Get(key).
BeginGet(r, key) ==
    [r EXCEPT !.pc = "get_open", !.op = "Get", !.key = key, !.buf = <<>>,
              !.ret = NoResult, !.seen = {PubOf(pub, key)}]

\* A task enters Set(key, e); a nil e is refused at once.
BeginSet(r, key, argNil, e) ==
    LET r1 == [r EXCEPT !.op = "Set", !.key = key, !.argNil = argNil, !.arg = e,
                        !.buf = <<>>, !.ret = NoResult, !.seen = {}]
    IN  IF argNil THEN Returned(r1, Result(ZeroEntry, FALSE, 0, "nil entry"))
        ELSE [r1 EXCEPT !.pc = "set_mkdir"]

\* os.Open(path) in Get: no file gives "absent"; a file that cannot be opened
\* gives the error of Open, and a directory in the place of the file, which
\* opens and cannot be read, the error of io.ReadAll.
GetOpen(t) ==
    LET r == tasks[t]
        path == filePathForKey(r.key)
    IN  /\ r.pc = "get_open"
        /\ IF path \in dirs
           THEN tasks' = [tasks EXCEPT ![t] =
                             Returned(r, Result(ZeroEntry, FALSE, 0, "read"))]
           ELSE IF path \notin DOMAIN files
           THEN tasks' = [tasks EXCEPT ![t] =
                             Returned(r, Result(ZeroEntry, FALSE, 0, ""))]
           ELSE IF path \in noperm
           THEN tasks' = [tasks EXCEPT ![t] =
                             Returned(r, Result(ZeroEntry, FALSE, 0, "open"))]
           ELSE tasks' = [tasks EXCEPT ![t] =
                             [r EXCEPT !.pc = "get_read", !.fd = files[path]]]
        /\ UNCHANGED <<files, inodes, dirs, locks, locked, pub, calls>>

\* One Read of io.ReadAll; at the end of the file, json.Unmarshal of what was
\* read and the return of Get.
GetRead(t) ==
    LET r == tasks[t]
        content == inodes[r.fd]
        n == IF Len(content) - Len(r.buf) < ReadChunk
             THEN Max2(Len(content) - Len(r.buf), 0) ELSE ReadChunk
        u == Unmarshal(r.buf)
        r1 == IF n > 0
              THEN [r EXCEPT !.buf = @ \o SubSeq(content, Len(r.buf) + 1, Len(r.buf) + n)]
              ELSE IF u.ok THEN Returned(r, Result(u.e, TRUE, 0, ""))
              ELSE Returned(r, Result(ZeroEntry, FALSE, 0, "unmarshal"))
    IN  /\ r.pc = "get_read"
        /\ tasks' = [tasks EXCEPT ![t] = r1]
        /\ inodes' = Collect(inodes, files, tasks')
        /\ UNCHANGED <<files, dirs, locks, locked, pub, calls>>

\* os.MkdirAll(filepath.Dir(path)) in Set.
SetMkdir(t) ==
    LET r == tasks[t]
        dir == Dir(filePathForKey(r.key))
    IN  /\ r.pc = "set_mkdir"
        /\ IF \E a \in Ancestors(dir) : a \in DOMAIN files
           THEN /\ tasks' = [tasks EXCEPT ![t] =
                                Returned(r, Result(ZeroEntry, FALSE, 0, "mkdir"))]
                /\ dirs' = dirs
           ELSE /\ tasks' = [tasks EXCEPT ![t] = [r EXCEPT !.pc = "lockfor"]]
                /\ dirs' = dirs \cup Ancestors(dir)
        /\ UNCHANGED <<files, inodes, locks, locked, pub, calls>>

\* A lockFor that stores a new mutex whether the key has one or not.
lockForStore(t) ==
    LET r == tasks[t]
    IN  /\ r.pc = "lockfor"
        /\ locks' = (r.key :> Mutex(r.key, t)) @@ locks
        /\ tasks' = [tasks EXCEPT ![t] = [r EXCEPT !.pc = "lock", !.mu = locks'[r.key]]]
        /\ UNCHANGED <<files, inodes, dirs, locked, pub, calls>>

\* c.lockFor(key): locks.LoadOrStore(key, &sync.Mutex{}), one atomic step.
lockFor(t) ==
    LET r == tasks[t]
    IN  /\ r.pc = "lockfor"
        /\ locks' = IF r.key \in DOMAIN locks THEN locks
                    ELSE (r.key :> Mutex(r.key, t)) @@ locks
        /\ tasks' = [tasks EXCEPT ![t] = [r EXCEPT !.pc = "lock", !.mu = locks'[r.key]]]
        /\ UNCHANGED <<files, inodes, dirs, locked, pub, calls>>

\* mu.Lock(): waits until the mutex is free.
Lock(t) ==
    LET r == tasks[t]
    IN  /\ r.pc = "lock"
        /\ r.mu \notin locked
        /\ locked' = locked \cup {r.mu}
        /\ tasks' = [tasks EXCEPT ![t] =
                        [r EXCEPT !.pc = IF r.op = "Set" THEN "set_create" ELSE "del_remove"]]
        /\ UNCHANGED <<files, inodes, dirs, locks, pub, calls>>

\* The open of os.WriteFile(tmp, b, 0o644): O_WRONLY|O_CREATE|O_TRUNC.
SetCreate(t) ==
    LET r == tasks[t]
        tmp == tmpPathFor(filePathForKey(r.key))
        ino == IF tmp \in DOMAIN files THEN files[tmp] ELSE FreshInode(files, tasks)
    IN  /\ r.pc = "set_create"
        /\ IF tmp \in dirs \/ Dir(tmp) \notin dirs
           THEN /\ tasks' = [tasks EXCEPT ![t] =
                                Returned(r, Result(ZeroEntry, FALSE, 0, "open"))]
                /\ locked' = locked \ {r.mu}
                /\ UNCHANGED <<files, inodes>>
           ELSE /\ files' = (tmp :> ino) @@ files
                /\ inodes' = (ino :> <<>>) @@ inodes
                /\ tasks' = [tasks EXCEPT ![t] = [r EXCEPT !.pc = "set_write", !.fd = ino]]
                /\ locked' = locked
        /\ UNCHANGED <<dirs, locks, pub, calls>>

\* The bytes data written at the start of a file that holds content.
WriteAt(content, data) == data \o SubSeq(content, Len(data) + 1, Len(content))

\* The write and the close of os.WriteFile: b = json.Marshal(e).
SetWrite(t) ==
    LET r == tasks[t]
    IN  /\ r.pc = "set_write"
        /\ tasks' = [tasks EXCEPT ![t] = [r EXCEPT !.pc = "set_rename", !.fd = 0]]
        /\ inodes' = Collect([inodes EXCEPT ![r.fd] = WriteAt(@, Marshal(r.arg))],
                             files, tasks')
        /\ UNCHANGED <<files, dirs, locks, locked, pub, calls>>

\* os.Rename(tmp, path), the deferred mu.Unlock() and the return of Set.
SetRename(t) ==
    LET r == tasks[t]
        path == filePathForKey(r.key)
        tmp == tmpPathFor(path)
    IN  /\ r.pc = "set_rename"
        /\ locked' = locked \ {r.mu}
        /\ IF tmp \notin DOMAIN files \/ path \in dirs
           THEN /\ tasks' = [tasks EXCEPT ![t] =
                                Returned(r, Result(ZeroEntry, FALSE, 0, "rename"))]
                /\ UNCHANGED <<files, inodes, pub>>
           ELSE /\ files' = (path :> files[tmp]) @@ Unlink(files, tmp)
                /\ pub' = (r.key :> Published(r.arg)) @@ pub
                /\ tasks' = [Note(tasks, r.key, Published(r.arg)) EXCEPT ![t] =
                                Returned(r, NoResult)]
                /\ inodes' = Collect(inodes, files', tasks')
        /\ UNCHANGED <<dirs, locks, calls>>

\* The file system refuses a step of Set (no space, no permission, an I/O
\* error), and Set returns the error.

\* os.MkdirAll fails after it has made the first n - 1 of the directories.
SetMkdirFail(t) ==
    LET r == tasks[t]
        dir == Dir(filePathForKey(r.key))
    IN  /\ r.pc = "set_mkdir"
        /\ \E n \in 1..(Len(dir) - 1) :
              dirs' = dirs \cup {a \in Ancestors(dir) : Len(a) <= n}
        /\ tasks' = [tasks EXCEPT ![t] = Returned(r, Result(ZeroEntry, FALSE, 0, "mkdir"))]
        /\ UNCHANGED <<files, inodes, locks, locked, pub, calls>>

\* The open of os.WriteFile fails.
SetCreateFail(t) ==
    LET r == tasks[t]
    IN  /\ r.pc = "set_create"
        /\ tasks' = [tasks EXCEPT ![t] = Returned(r, Result(ZeroEntry, FALSE, 0, "open"))]
        /\ locked' = locked \ {r.mu}
        /\ UNCHANGED <<files, inodes, dirs, locks, pub, calls>>

\* The write of os.WriteFile fails after n tokens of the data.
SetWriteFail(t) ==
    LET r == tasks[t]
        data == Marshal(r.arg)
    IN  /\ r.pc = "set_write"
        /\ tasks' = [tasks EXCEPT ![t] = Returned(r, Result(ZeroEntry, FALSE, 0, "write"))]
        /\ locked' = locked \ {r.mu}
        /\ \E n \in 0..(Len(data) - 1) :
              inodes' = Collect([inodes EXCEPT ![r.fd] = WriteAt(@, SubSeq(data, 1, n))],
                                files, tasks')
        /\ UNCHANGED <<files, dirs, locks, pub, calls>>

\* os.Rename fails.
SetRenameFail(t) ==
    LET r == tasks[t]
    IN  /\ r.pc = "set_rename"
        /\ tasks' = [tasks EXCEPT ![t] = Returned(r, Result(ZeroEntry, FALSE, 0, "rename"))]
        /\ locked' = locked \ {r.mu}
        /\ UNCHANGED <<files, inodes, dirs, locks, pub, calls>>

SetFault(t) ==
    \/ SetMkdirFail(t)
    \/ SetCreateFail(t)
    \/ SetWriteFail(t)
    \/ SetRenameFail(t)

\* A task enters Delete(key): the lock comes first.
BeginDelete(r, key) ==
    [r EXCEPT !.pc = "lockfor", !.op = "Delete", !.key = key, !.buf = <<>>,
              !.ret = NoResult, !.seen = {}]

\* A walk that finds every directory empty.
NoChildren(dir) == <<>>

\* What lies directly in a directory, in the order of the names.
Children(dir) ==
    LET here == {q \in dirs \cup DOMAIN files : Len(q) = Len(dir) + 1 /\ Dir(q) = dir}
        names == SetToSorted({q[Len(q)] : q \in here})
    IN  [i \in 1..Len(names) |-> Append(dir, names[i])]

\* The history of the removal of the file at path: the keys it was the entry of
\* publish nothing any more.
Removed(p, path, by) ==
    [k \in DOMAIN p |-> IF filePathForKey(k) = path THEN Unpublished(by) ELSE p[k]]

RECURSIVE NoteAll(_, _, _)
NoteAll(ts, keys, p) ==
    IF keys = {} THEN ts
    ELSE LET k == CHOOSE x \in keys : TRUE
         IN  NoteAll(Note(ts, k, p), keys \ {k}, p)

NoteRemoved(ts, path, by) ==
    NoteAll(ts, {k \in DOMAIN pub : filePathForKey(k) = path}, Unpublished(by))

\* os.Remove(path), the deferred mu.Unlock() and the return of Delete; a file
\* that is not there is no error.
DelRemove(t) ==
    LET r == tasks[t]
        path == filePathForKey(r.key)
    IN  /\ r.pc = "del_remove"
        /\ locked' = locked \ {r.mu}
        /\ IF path \in DOMAIN files
           THEN /\ files' = Unlink(files, path)
                /\ pub' = Removed(pub, path, "Delete")
                /\ tasks' = [NoteRemoved(tasks, path, "Delete") EXCEPT ![t] =
                                Returned(r, NoResult)]
                /\ inodes' = Collect(inodes, files', tasks')
                /\ dirs' = dirs
           ELSE IF path \in dirs
           THEN /\ IF Children(path) = <<>>
                   THEN /\ dirs' = dirs \ {path}
                        /\ tasks' = [tasks EXCEPT ![t] = Returned(r, NoResult)]
                   ELSE /\ dirs' = dirs
                        /\ tasks' = [tasks EXCEPT ![t] =
                                        Returned(r, Result(ZeroEntry, FALSE, 0, "remove"))]
                /\ UNCHANGED <<files, inodes, pub>>
           ELSE /\ tasks' = [tasks EXCEPT ![t] = Returned(r, NoResult)]
                /\ UNCHANGED <<files, inodes, dirs, pub>>
        /\ UNCHANGED <<locks, calls>>

\* A task enters Clear(): filepath.Walk starts at the cache directory.
BeginClear(r, t) ==
    [r EXCEPT !.pc = "clear_walk", !.op = "Clear", !.key = <<>>, !.buf = <<>>,
              !.ret = NoResult, !.seen = {}, !.work = <<CacheDir>>, !.count = 0,
              !.alone = \A o \in Tasks \ {t} : ~InProgress(tasks[o]),
              !.n0 = Cardinality({k \in DOMAIN pub : pub[k].present}),
              !.f0 = Cardinality(DOMAIN files)]

\* The walk is over when nothing is left to visit: Clear returns (count, nil).
\* (History: n1 entries and f1 files are left at that moment.)
Walked(r, work, count, n1, f1) ==
    IF work = <<>> THEN Returned([r EXCEPT !.n1 = n1, !.f1 = f1],
                                 Result(ZeroEntry, FALSE, count, ""))
    ELSE [r EXCEPT !.work = work, !.count = count]

\* One visit of filepath.Walk and of the function Clear gives it.  A directory:
\* its names are read and visited next.  A file: removed and counted when its
\* extension is ".json".  A name that is gone since its directory was read: the
\* walk ends with the error of Lstat, or, gone only after Lstat, the visit
\* removes nothing.
ClearVisit(t) ==
    LET r == tasks[t]
        p == Head(r.work)
        rest == Tail(r.work)
        n == Cardinality({k \in DOMAIN pub : pub[k].present})
        f == Cardinality(DOMAIN files)
    IN  /\ r.pc = "clear_walk"
        /\ IF p \in dirs
           THEN /\ tasks' = [tasks EXCEPT ![t] =
                                Walked(r, Children(p) \o rest, r.count, n, f)]
                /\ UNCHANGED <<files, inodes, pub>>
           ELSE IF p \in DOMAIN files
           THEN IF Ext(p) = DotJson
                THEN /\ files' = Unlink(files, p)
                     /\ pub' = Removed(pub, p, "Clear")
                     /\ tasks' = [NoteRemoved(tasks, p, "Clear") EXCEPT ![t] =
                                     Walked(r, rest, r.count + 1,
                                            Cardinality({k \in DOMAIN pub' : pub'[k].present}),
                                            f - 1)]
                     /\ inodes' = Collect(inodes, files', tasks')
                ELSE /\ tasks' = [tasks EXCEPT ![t] = Walked(r, rest, r.count, n, f)]
                     /\ UNCHANGED <<files, inodes, pub>>
           ELSE /\ \/ tasks' = [tasks EXCEPT ![t] =
                                   Returned(r, Result(ZeroEntry, FALSE, r.count, "lstat"))]
                   \/ tasks' = [tasks EXCEPT ![t] = Walked(r, rest, r.count, n, f)]
                /\ UNCHANGED <<files, inodes, pub>>
        /\ UNCHANGED <<dirs, locks, locked, calls>>

(***************************************************************************)
(* The Store under concurrent callers                                      *)
(***************************************************************************)
\* "Content-Type: text/html", body "a"; no header, no body; a header value
\* that is not UTF-8 (the byte 0xFF), body "ab".
Entry1 == Entry(200, (ContentType :> << <<116,101,120,116,47,104,116,109,108>> >>), <<97>>)
Entry2 == Entry(404, EmptyHeader, <<>>)
Entry3 == Entry(200, (XNote :> << <<255>> >>), <<97, 98>>)
StoreEntries == {Entry1, Entry2, Entry3}

\* A call starts; a Clear in progress is no longer alone.
Disturbed(ts, t) ==
    [o \in Tasks |->
        IF o # t /\ ts[o].op = "Clear" /\ InProgress(ts[o])
        THEN [ts[o] EXCEPT !.alone = FALSE] ELSE ts[o]]

CanCall(t) == ~InProgress(tasks[t]) /\ calls < MaxCalls

CallGet(t, key) ==
    /\ CanCall(t)
    /\ tasks' = [Disturbed(tasks, t) EXCEPT ![t] = BeginGet(IdleTask, key)]
    /\ calls' = calls + 1
    /\ UNCHANGED <<files, inodes, dirs, locks, locked, pub>>

CallSet(t, key, argNil, e) ==
    /\ CanCall(t)
    /\ tasks' = [Disturbed(tasks, t) EXCEPT ![t] = BeginSet(IdleTask, key, argNil, e)]
    /\ calls' = calls + 1
    /\ UNCHANGED <<files, inodes, dirs, locks, locked, pub>>

CallDelete(t, key) ==
    /\ CanCall(t)
    /\ tasks' = [Disturbed(tasks, t) EXCEPT ![t] = BeginDelete(IdleTask, key)]
    /\ calls' = calls + 1
    /\ UNCHANGED <<files, inodes, dirs, locks, locked, pub>>

CallClear(t) ==
    /\ CanCall(t)
    /\ tasks' = [Disturbed(tasks, t) EXCEPT ![t] = BeginClear(IdleTask, t)]
    /\ calls' = calls + 1
    /\ UNCHANGED <<files, inodes, dirs, locks, locked, pub>>

\* The cache directory of NewDiskCache with the entry files of earlier Sets:
\* the keys of P hold e.
StoreImage(P, e) ==
    LET ks == SetToSorted(P)
    IN  /\ files = [q \in {filePathForKey(k) : k \in P} |->
                       CHOOSE i \in 1..Len(ks) : filePathForKey(ks[i]) = q]
        /\ inodes = [i \in 1..Len(ks) |-> Marshal(e)]
        /\ dirs = {CacheDir} \cup UNION {Ancestors(Dir(filePathForKey(k))) : k \in P}
        /\ pub = [k \in StoreKeys |-> IF k \in P THEN Published(e) ELSE Absent]

InitStore ==
    /\ \E P \in SUBSET StoreKeys : StoreImage(P, Entry1)
    /\ noperm = {}
    /\ locks = <<>>
    /\ locked = {}
    /\ tasks = [t \in Tasks |-> IdleTask]
    /\ calls = 0
    /\ NoProxy

StoreStep(t) ==
    \/ GetOpen(t)
    \/ GetRead(t)
    \/ SetMkdir(t)
    \/ lockFor(t)
    \/ Lock(t)
    \/ SetCreate(t)
    \/ SetWrite(t)
    \/ SetRename(t)
    \/ DelRemove(t)
    \/ ClearVisit(t)

NextStore ==
    /\ \E t \in Tasks :
          \/ \E k \in StoreKeys : CallGet(t, k)
          \/ \E k \in StoreKeys, e \in StoreEntries : CallSet(t, k, FALSE, e)
          \/ \E k \in StoreKeys : CallSet(t, k, TRUE, ZeroEntry)
          \/ \E k \in StoreKeys : CallDelete(t, k)
          \/ CallClear(t)
          \/ StoreStep(t)
    /\ UNCHANGED <<noperm, c, handlers, first, served, fn>>

SpecStore == InitStore /\ [][NextStore]_vars

(***************************************************************************)
(* Get as a function of what lies at the path of the key                   *)
(***************************************************************************)
\* What a file at the path of a key may hold when the Store finds it: the
\* entries Set writes, what is left of one when a write is cut short, and JSON
\* that no Set has written.
FileContents ==
    {Marshal(e) : e \in StoreEntries}
        \cup {SubSeq(Marshal(Entry1), 1, n) : n \in 0..(Len(Marshal(Entry1)) - 1)}
        \cup { <<TokNull>>,
               <<TokOpen, TokClose>>,
               <<TokOpen, Tok("Status", <<>>, << <<200>> >>), TokClose>>,
               <<TokOpen, Tok("other", <<>>, <<>>), TokClose>>,
               <<TokOpen, Tok("Status", <<>>, << <<200>> >>), TokOpen, TokClose>> }

\* The cache directory with, at the path of key k: nothing, a directory, or a
\* file that holds data, readable or not.
InitGet ==
    /\ \E k \in StoreKeys :
          LET path == filePathForKey(k)
          IN  \/ /\ files = <<>> /\ inodes = <<>> /\ noperm = {}
                 /\ dirs \in {{CacheDir}, Ancestors(path)}
              \/ \E data \in FileContents :
                    /\ files = (path :> 1)
                    /\ inodes = (1 :> data)
                    /\ dirs = Ancestors(Dir(path))
                    /\ noperm \in {{}, {path}}
    /\ pub = [k \in StoreKeys |-> Absent]
    /\ locks = <<>>
    /\ locked = {}
    /\ tasks = [t \in Tasks |-> IdleTask]
    /\ calls = 0
    /\ NoProxy

NextGet ==
    /\ \E t \in Tasks :
          \/ \E k \in StoreKeys : CallGet(t, k)
          \/ GetOpen(t)
          \/ GetRead(t)
    /\ UNCHANGED <<noperm, c, handlers, first, served, fn>>

SpecGet == InitGet /\ [][NextGet]_vars

DoneGets == {t \in Tasks : tasks[t].op = "Get" /\ tasks[t].pc = "ret"}

\* Whether data is what Set writes for an entry.
IsSerializedEntry(data) == ValidJSON(data) /\ data = Marshal(Unmarshal(data).e)

\* C9: Get has three outcomes, decided by what lies at the path of the key:
\* the entry, found, when a complete serialized entry is there; not found and
\* no error when no file is there; an error, and not found, when the file is
\* there and cannot be read or holds anything else than a serialized entry.
C9_GetOutcomes ==
    \A t \in DoneGets :
        LET r == tasks[t]
            path == filePathForKey(r.key)
        IN  IF path \notin DOMAIN files /\ path \notin dirs
            THEN ~r.ret.found /\ r.ret.err = ""
            ELSE IF /\ path \in DOMAIN files
                    /\ path \notin noperm
                    /\ IsSerializedEntry(inodes[files[path]])
            THEN r.ret.found /\ r.ret.err = "" /\ r.ret.e = Unmarshal(inodes[files[path]]).e
            ELSE ~r.ret.found /\ r.ret.err # ""

(***************************************************************************)
(* Properties of the Store                                                 *)
(***************************************************************************)
DoneClears == {t \in Tasks : tasks[t].op = "Clear" /\ tasks[t].pc = "ret"}

SetsInProgress(key) ==
    {t \in Tasks : tasks[t].op = "Set" /\ InProgress(tasks[t]) /\ tasks[t].key = key}

\* What Get gives back for an entry passed to Set: the entry as its file
\* holds it.
AsStored(e) == Unmarshal(Marshal(e)).e

\* Every Get returns without error what the key published at some moment
\* between its call and its return: the entry of a Set as its file holds it, or
\* nothing.  The reads of a file are never torn.
GetIsAtomic ==
    \A t \in DoneGets :
        LET r == tasks[t]
        IN  /\ r.ret.err = ""
            /\ r.ret.found => \E p \in r.seen : p.present /\ AsStored(p.e) = r.ret.e
            /\ ~r.ret.found => \E p \in r.seen : ~p.present

\* C1: under any interleaving of Get and Set on a key, a Get that finds an
\* entry returns, equal in full, an entry passed to a Set, the one published
\* just before or just after a concurrent write; a Get during which the key
\* always held an entry returns neither an error nor "absent".
C1_GetReturnsEntryPassedToSet ==
    \A t \in DoneGets :
        LET r == tasks[t]
        IN  /\ r.ret.found => Published(r.ret.e) \in r.seen
            /\ (\A p \in r.seen : p.present) => r.ret.found /\ r.ret.err = ""

\* C2: once the concurrent Sets of a key have all returned, the file of the key
\* holds in full the entry of the Set that renamed last, and a Get that
\* follows returns that entry.
C2_LastRenameWins ==
    \A k \in StoreKeys :
        SetsInProgress(k) = {} /\ pub[k].present =>
            /\ filePathForKey(k) \in DOMAIN files
            /\ inodes[files[filePathForKey(k)]] = Marshal(pub[k].e)
            /\ \A t \in DoneGets :
                  tasks[t].key = k /\ tasks[t].seen = {pub[k]} =>
                      tasks[t].ret.found /\ tasks[t].ret.e = pub[k].e

\* C8: a Get of a key that held the entry e of a Set from the call of the Get
\* to its return finds an entry with the status, the headers and the body of e.
C8_RoundTrip ==
    \A t \in DoneGets : \A e \in StoreEntries :
        tasks[t].seen = {Published(e)} =>
            /\ tasks[t].ret.found
            /\ tasks[t].ret.err = ""
            /\ tasks[t].ret.e.Status = e.Status
            /\ tasks[t].ret.e.Header = e.Header
            /\ tasks[t].ret.e.Body = e.Body

\* C10: a Clear that ran with no other call in progress, on a Store that held
\* the entries of n keys, returns (n, nil), has removed exactly n files and has
\* left no entry; a Get of a key that published nothing since a Clear took its
\* entry returns "absent".
C10_ClearRemovesAll ==
    /\ \A t \in DoneClears :
          tasks[t].alone =>
              /\ tasks[t].ret.n = tasks[t].n0
              /\ tasks[t].ret.err = ""
              /\ tasks[t].f1 = tasks[t].f0 - tasks[t].n0
              /\ tasks[t].n1 = 0
    /\ \A t \in DoneGets :
          tasks[t].seen = {Unpublished("Clear")} =>
              ~tasks[t].ret.found /\ tasks[t].ret.err = ""

\* A Clear alone on a Store with an entry for every key has returned, and a Get
\* after it has returned "absent".
C10_Witness ==
    /\ \E t \in DoneClears :
          tasks[t].alone /\ tasks[t].n0 = NumKeys /\ tasks[t].ret.n = NumKeys
    /\ \E t \in DoneGets :
          tasks[t].seen = {Unpublished("Clear")} /\ ~tasks[t].ret.found

(***************************************************************************)
(* The proxy: Run's handlers                                               *)
(***************************************************************************)
MaxReqs == 3

\* "/i", "a/b", "Bearer x", "max-age=0", "max-age=0, No-Store ", "text/html"
PathI == <<47,105>>
AcceptAB == <<97,47,98>>
BearerX == <<66,101,97,114,101,114,32,120>>
MaxAge0 == <<109,97,120,45,97,103,101,61,48>>
MaxAge0NoStore == <<109,97,120,45,97,103,101,61,48,44,32,78,111,45,83,116,111,114,101,32>>
TextHtml == <<116,101,120,116,47,104,116,109,108>>
\* "text/plain; charset=utf-8", "nosniff", "ok", "Bad Gateway\n"
TextPlainUtf8 == <<116,101,120,116,47,112,108,97,105,110,59,32,99,104,97,114,115,101,116,61,117,116,102,45,56>>
Nosniff == <<110,111,115,110,105,102,102>>
OkBody == <<111,107>>
BadGateway == <<66,97,100,32,71,97,116,101,119,97,121,10>>

\* The requests the clients send: a plain GET; one with Accept; one with
\* Authorization; one with no-store in its Cache-Control line; one with
\* no-store in the second of two Cache-Control lines; a POST; the liveness
\* probe.
ReqPlain == Request(GET, PathI, <<>>, EmptyHeader)
ReqAccept == Request(GET, PathI, <<>>, (Accept :> <<AcceptAB>>))
ReqAuth == Request(GET, PathI, <<>>, (Authorization :> <<BearerX>>))
ReqNoStore == Request(GET, PathI, <<>>, (CacheControl :> <<MaxAge0NoStore>>))
ReqNoStore2 == Request(GET, PathI, <<>>, (CacheControl :> <<MaxAge0, NoStore>>))
ReqPost == Request(POST, PathI, <<>>, EmptyHeader)
ReqHealthz == Request(GET, HealthzPath, <<>>, EmptyHeader)
Requests == {ReqPlain, ReqAccept, ReqAuth, ReqNoStore, ReqNoStore2, ReqPost, ReqHealthz}

\* What the origin answers: a page; a 404 without header or body; a page with
\* no-store in its Cache-Control line; one with no-store in the second of two
\* Cache-Control lines; one that carries an X-Cache header of its own and two
\* Set-Cookie lines, "b=2" before "a=1".
ResPage == Response(200, (ContentType :> <<TextHtml>>), <<97>>)
ResNotFound == Response(404, EmptyHeader, <<>>)
ResNoStore == Response(200, (CacheControl :> <<MaxAge0NoStore>>), <<98>>)
ResNoStore2 == Response(200, (CacheControl :> <<MaxAge0, NoStore>>), <<99>>)
ResXCache ==
    Response(200, (XCache :> <<HIT>>) @@ (SetCookie :> <<<<98,61,50>>, <<97,61,49>>>>), <<100>>)
OriginResponses == {ResPage, ResNotFound, ResNoStore, ResNoStore2, ResXCache}

\* sha256 and hex, as the one-to-one function it is taken for: the materials
\* the requests give are numbered in their order.
\* The requests BuildCacheKey is called with on its own: two methods; the
\* paths "/i", "i", "/i?q" and "/i%3Fq"; no query and the query "q"; no
\* Accept line, one, another one, and two lines.
PathNoSlash == <<105>>
PathQuestion == <<47,105,63,113>>
PathPercent == <<47,105,37,51,70,113>>
QueryQ == <<113>>
AcceptCD == <<99,47,100>>
KeyRequests ==
    {Request(m, p, q, h) :
        m \in {GET, POST},
        p \in {PathI, PathNoSlash, PathQuestion, PathPercent},
        q \in {<<>>, QueryQ},
        h \in {EmptyHeader, (Accept :> <<AcceptAB>>), (Accept :> <<AcceptCD>>),
               (Accept :> <<AcceptAB, AcceptCD>>)}}

\* sha256 and hex.EncodeToString: a digest of KeyLen hex digits, different for
\* different key materials.
AllMaterials == {KeyMaterial(OriginBase, r) : r \in Requests \cup KeyRequests}
Sha256Hex(m) == HexKey(1 + Cardinality({x \in AllMaterials : LexLess(x, m)}))

BuildCacheKey(originBase, r) == Sha256Hex(KeyMaterial(originBase, r))


\* Line 54 of the handler.
cacheEligible(r) ==
    /\ r.Method = GET
    /\ HeaderGet(r.Header, Authorization) = <<>>
    /\ ~reqNoStore(r.Header)

\* Whether some Cache-Control line of the header has the no-store token.
AnyNoStore(header) ==
    /\ CacheControl \in DOMAIN header
    /\ \E i \in 1..Len(header[CacheControl]) :
          containsToken(header[CacheControl][i], NoStore)

\* A request as the specification calls it cache-eligible: GET, no
\* Authorization header, no no-store in its Cache-Control.
SpecEligible(r) ==
    /\ r.Method = GET
    /\ Authorization \notin DOMAIN r.Header
    /\ ~AnyNoStore(r.Header)

\* The requests the specification calls cache-eligible and the responses
\* of the origin that say no-store.
SpecEligibleRequests == {r \in Requests : SpecEligible(r)}
NoStoreResponses == {o \in OriginResponses : AnyNoStore(o.Header)}

\* The key and the eligibility of each request the clients send.
KeyOf == [r \in Requests |-> BuildCacheKey(OriginBase, r)]
Eligible == {r \in Requests : cacheEligible(r)}

\* The requests under way whose key is key.
Handling(hs, key) ==
    {t \in Tasks : hs[t].key = key /\ hs[t].hpc \notin {"none", "done"}}

\* History: with a Store, an eligible request that ran alone on a key that
\* was absent when it came, and that the origin answered without no-store, is
\* the first to have had the origin's response for the key.
Fills(h, ores) ==
    /\ c /\ h.alone /\ h.absent0 /\ h.fault = ""
    /\ h.req \in SpecEligibleRequests
    /\ ores \in OriginResponses \ NoStoreResponses

Filled(fs, h, ores, out) ==
    IF Fills(h, ores)
    THEN [k \in DOMAIN fs \cup {h.key} |->
             IF k = h.key THEN [req |-> h.req, ores |-> ores, out |-> out] ELSE fs[k]]
    ELSE fs

\* History: a client has received the response of a request like req whose
\* c.Set returned nil.
StoredFor(hs, req) ==
    \E u \in Tasks :
        /\ hs[u].hpc = "done" /\ hs[u].req = req
        /\ hs[u].nSet = 1 /\ hs[u].setErr = ""

\* A handler that takes no entry from the Store.
NeverHit(got) == FALSE

\* The test of line 59 on what c.Get returned: ok && ent != nil.
IsHit(got) == got.found

\* The answer of the /healthz handler.
HealthzResponse == Response(200, (ContentType :> <<TextPlainUtf8>>), OkBody)

\* An ErrorHandler that answers 200.
BadGatewayResponseOK ==
    Response(200, (ContentType :> <<TextPlainUtf8>>) @@ (XContentTypeOptions :> <<Nosniff>>),
             BadGateway)

\* The answer of the ErrorHandler: http.Error(w, "Bad Gateway", 502).
BadGatewayResponse ==
    Response(502, (ContentType :> <<TextPlainUtf8>>) @@ (XContentTypeOptions :> <<Nosniff>>),
             BadGateway)


\* A request arrives and the mux picks its handler.  /healthz is answered on
\* the spot; a cache-eligible request of a proxy with a Store derives its key
\* and calls c.Get; any other goes to the base proxy.
Handle(t, req) ==
    LET key == KeyOf[req]
        others == Handling(handlers, key) \ {t}
        known == key \in DOMAIN first /\ first[key].req = req
        h0 == IF c /\ req \in SpecEligibleRequests
              THEN [IdleHandler EXCEPT
                       !.req = req, !.key = key, !.alone = (others = {}),
                       !.absent0 = ~PubOf(pub, key).present,
                       !.hasPrior = known,
                       !.prior = IF known THEN first[key].ores ELSE NoResponse,
                       !.priorOut = IF known THEN first[key].out ELSE NoResponse,
                       !.stored0 = StoredFor(handlers, req)]
              ELSE [IdleHandler EXCEPT !.req = req, !.key = key]
        h1 == IF req.Path = HealthzPath
              THEN [h0 EXCEPT !.hpc = "done", !.out = HealthzResponse]
              ELSE IF c /\ req \in Eligible
              THEN [h0 EXCEPT !.hpc = "get", !.viaCache = TRUE, !.nGet = 1]
              ELSE [h0 EXCEPT !.hpc = "origin"]
    IN  /\ ~InProgress(tasks[t])
        /\ handlers[t].hpc \in {"none", "done"}
        /\ served < MaxReqs
        /\ served' = served + 1
        /\ handlers' = [o \in Tasks |->
                           IF o = t THEN h1
                           ELSE IF o \in others /\ req.Path # HealthzPath
                           THEN [handlers[o] EXCEPT !.alone = FALSE]
                           ELSE handlers[o]]
        /\ tasks' = [tasks EXCEPT ![t] =
                        IF h1.hpc = "get" THEN BeginGet(IdleTask, key) ELSE IdleTask]
        /\ UNCHANGED <<files, inodes, dirs, noperm, locks, locked, pub, calls, c, first>>

\* A hit that answers 200 whatever the entry's status.
HitResponseStatusOK(ent) ==
    Response(200,
             filterHopByHop(HeaderSet(copyHeaders(EmptyHeader, ent.Header), XCache, HIT)),
             ent.Body)

\* The response of a hit: the entry's headers, X-Cache: HIT, the hop-by-hop
\* headers taken out, the entry's status and body.
HitResponse(ent) ==
    Response(ent.Status,
             filterHopByHop(HeaderSet(copyHeaders(EmptyHeader, ent.Header), XCache, HIT)),
             ent.Body)

\* c.Get has returned: an entry is served as a hit, anything else (absent or
\* an error, which the handler drops) goes to the origin.
AfterGet(t) ==
    LET h == handlers[t]
        got == tasks[t].ret
    IN  /\ h.hpc = "get"
        /\ tasks[t].pc = "ret"
        /\ handlers' = [handlers EXCEPT ![t] =
              IF IsHit(got)
              THEN [h EXCEPT !.hpc = "done", !.found = got.found,
                             !.out = HitResponse(got.e), !.logs = <<"access">>]
              ELSE [h EXCEPT !.hpc = "origin", !.found = got.found]]
        /\ tasks' = [tasks EXCEPT ![t] = IdleTask]
        /\ UNCHANGED <<files, inodes, dirs, noperm, locks, locked, pub, calls,
                       c, first, served>>

\* A ModifyResponse that does not set X-Cache.
MissHeaderUnmarked(res) == filterHopByHop(res.Header)

\* The headers of the origin's response after the ModifyResponse of the
\* per-request proxy has filtered them and set X-Cache.
MissHeader(res) == HeaderSet(filterHopByHop(res.Header), XCache, MISS)

\* The responses whose body may break off while it is read.
BodyFailResponses == {ResPage, ResNoStore}

\* What is read of a body that breaks off: less than all of it.
Truncated(body) == {SubSeq(body, 1, n) : n \in 0..(Len(body) - 1)}

\* The round trip to the origin and what ModifyResponse makes of its result;
\* fault is "" when the origin answers in full, "roundtrip" when no response
\* comes and "body" when the body of the response breaks off.  A round trip
\* that fails is answered by the ErrorHandler.  The base proxy relays the
\* response with its hop-by-hop headers taken out.  The per-request proxy sets
\* X-Cache: MISS and, unless the response says no-store, reads the body (the
\* error of io.ReadAll goes to the ErrorHandler), sets Content-Length and
\* calls c.Set.  A body that breaks off while it is relayed reaches the client
\* cut short, after the status and the headers.
RoundTrip(t, fault, ores) ==
    LET h == handlers[t]
        h1 == [h EXCEPT !.nOrigin = @ + 1, !.ores = ores, !.fault = fault]
        mh == MissHeader(ores)
        sh == HeaderSet(mh, ContentLength, Itoa(Len(ores.Body)))
        entry == Entry(ores.Status, CloneHeaders(sh), ores.Body)
        stores == h.viaCache /\ ~resNoStore(mh)
        BadGatewayAnswer ==
            /\ handlers' = [handlers EXCEPT ![t] =
                               [h1 EXCEPT !.hpc = "done", !.failed = TRUE,
                                          !.out = BadGatewayResponse,
                                          !.logs = <<"proxy error", "access">>]]
            /\ UNCHANGED <<tasks, first>>
    IN  /\ h.hpc = "origin"
        /\ fault = "roundtrip" => ores = NoResponse
        /\ fault = "body" => ores \in BodyFailResponses
        /\ IF fault = "roundtrip" THEN BadGatewayAnswer
           ELSE IF ~stores
           THEN /\ \E body \in IF fault = "body" THEN Truncated(ores.Body) ELSE {ores.Body} :
                      handlers' = [handlers EXCEPT ![t] =
                          [h1 EXCEPT !.hpc = "done",
                                     !.logs = IF fault = "body" THEN <<"read error">>
                                              ELSE <<"access">>,
                                     !.out = Response(ores.Status,
                                                      IF h.viaCache THEN mh
                                                      ELSE filterHopByHop(ores.Header),
                                                      body)]]
                /\ first' = IF fault = "" THEN Filled(first, h, ores, handlers'[t].out)
                            ELSE first
                /\ UNCHANGED tasks
           ELSE IF fault = "body" THEN BadGatewayAnswer
           ELSE /\ handlers' = [handlers EXCEPT ![t] =
                      [h1 EXCEPT !.hpc = "set", !.nSet = @ + 1,
                                 !.res = Response(ores.Status, sh, ores.Body)]]
                /\ tasks' = [tasks EXCEPT ![t] = BeginSet(IdleTask, h.key, FALSE, entry)]
                /\ UNCHANGED first
        /\ UNCHANGED <<files, inodes, dirs, noperm, locks, locked, pub, calls, c, served>>

\* c.Set has returned, its error dropped: the response is relayed.
\* A handler that relays the response without waiting for c.Set to return.
AfterSetUnawaited(t) ==
    LET h == handlers[t]
    IN  /\ h.hpc = "set"
        /\ handlers' = [handlers EXCEPT ![t] =
                           [h EXCEPT !.hpc = "done", !.out = h.res, !.res = NoResponse,
                                     !.logs = <<"access">>]]
        /\ tasks' = [tasks EXCEPT ![t] = IdleTask]
        /\ UNCHANGED <<files, inodes, dirs, noperm, locks, locked, pub, calls, c,
                       first, served>>

\* c.Set has returned: its error is dropped and the response is relayed.
AfterSet(t) ==
    LET h == handlers[t]
    IN  /\ h.hpc = "set"
        /\ tasks[t].pc = "ret"
        /\ handlers' = [handlers EXCEPT ![t] =
                           [h EXCEPT !.hpc = "done", !.out = h.res, !.res = NoResponse,
                                     !.setErr = tasks[t].ret.err, !.logs = <<"access">>]]
        /\ tasks' = [tasks EXCEPT ![t] = IdleTask]
        /\ first' = IF tasks[t].ret.err = "" THEN Filled(first, h, h.ores, h.res)
                    ELSE first
        /\ UNCHANGED <<files, inodes, dirs, noperm, locks, locked, pub, calls, c, served>>

\* The proxy over an empty cache directory, with a Store or without one.
Init ==
    /\ files = <<>>
    /\ inodes = <<>>
    /\ dirs = {CacheDir}
    /\ noperm = {}
    /\ locks = <<>>
    /\ locked = {}
    /\ tasks = [t \in Tasks |-> IdleTask]
    /\ pub = [k \in {KeyOf[r] : r \in Requests} |-> Absent]
    /\ calls = 0
    /\ c \in BOOLEAN
    /\ handlers = [t \in Tasks |-> IdleHandler]
    /\ first = <<>>
    /\ served = 0
    /\ fn = NoCall

\* A step of the Store call a handler is in.
HandlerStoreStep(t) ==
    /\ \/ GetOpen(t)
       \/ GetRead(t)
       \/ SetMkdir(t)
       \/ lockFor(t)
       \/ Lock(t)
       \/ SetCreate(t)
       \/ SetWrite(t)
       \/ SetRename(t)
    /\ UNCHANGED <<noperm, c, handlers, first, served, fn>>

Next ==
    /\ \E t \in Tasks :
          \/ \E req \in Requests : Handle(t, req)
          \/ HandlerStoreStep(t)
          \/ AfterGet(t)
          \/ \E ores \in OriginResponses : RoundTrip(t, "", ores)
          \/ RoundTrip(t, "roundtrip", NoResponse)
          \/ \E ores \in BodyFailResponses : RoundTrip(t, "body", ores)
          \/ AfterSet(t)
    /\ UNCHANGED fn

Spec == Init /\ [][Next]_vars

(***************************************************************************)
(* Properties of the proxy                                                 *)
(***************************************************************************)
\* The handlers that have answered a proxied request.
Done == {t \in Tasks : handlers[t].hpc = "done" /\ handlers[t].req.Path # HealthzPath}

\* The values of X-Cache in a header, <<>> for none.
XCacheOf(header) == IF XCache \in DOMAIN header THEN header[XCache] ELSE <<>>

\* C3: with a Store, an eligible request for a key absent from the Store,
\* answered by the origin with status s and body b and no no-store, is relayed
\* as a MISS with s and b; every later identical request is answered as a HIT
\* with s and b, without a call to the origin.
C3_MissThenHit ==
    \A t \in Done :
        LET h == handlers[t]
        IN  /\ Fills(h, h.ores)
               => /\ XCacheOf(h.out.Header) = <<MISS>>
                  /\ h.out.Status = h.ores.Status
                  /\ h.out.Body = h.ores.Body
            /\ h.hasPrior
               => /\ XCacheOf(h.out.Header) = <<HIT>>
                  /\ h.out.Status = h.prior.Status
                  /\ h.out.Body = h.prior.Body
                  /\ h.nOrigin = 0

\* C3, its case: an eligible request has been answered after an identical
\* one had filled the key.
C3_Witness ==
    \E t \in Done :
        /\ handlers[t].hasPrior
        /\ handlers[t].prior.Status = 404

\* C4: a request answered from the Store made no round trip to the origin,
\* every other proxied request exactly one; requests for one key that all
\* found the Store empty made one round trip each, none shared.
C4_OneRoundTripUnlessHit ==
    /\ \A t \in Tasks : handlers[t].nOrigin <= 1
    /\ \A t \in Done : handlers[t].nOrigin = IF handlers[t].found THEN 0 ELSE 1
    /\ \A t, u \in Done :
          ( /\ t # u /\ handlers[t].key = handlers[u].key
            /\ handlers[t].viaCache /\ handlers[u].viaCache
            /\ ~handlers[t].found /\ ~handlers[u].found )
          => handlers[t].nOrigin + handlers[u].nOrigin = 2

\* C4, its case: two requests for one key were under way together, both
\* found the Store empty and both stored what they fetched.
C4_Witness ==
    \E t, u \in Done :
        /\ t # u /\ handlers[t].key = handlers[u].key
        /\ ~handlers[t].alone /\ ~handlers[u].alone
        /\ ~handlers[t].found /\ ~handlers[u].found
        /\ handlers[t].nSet = 1 /\ handlers[u].nSet = 1

\* C5: a request with a method other than GET, with an Authorization header
\* or with no-store in its Cache-Control, and any request of a proxy without
\* a Store, is forwarded to the origin without a Get or a Set of the Store
\* and answered without an X-Cache header.
C5_IneligibleBypasses ==
    \A t \in Done :
        LET h == handlers[t]
        IN  (~c \/ h.req \notin SpecEligibleRequests)
            => /\ h.nOrigin = 1
               /\ h.nGet = 0
               /\ h.nSet = 0
               /\ XCache \notin DOMAIN h.out.Header

\* C6: when the origin's response to a miss has no-store in its
\* Cache-Control, it is relayed with X-Cache: MISS and Set is not called.
C6_NoStoreNotStored ==
    \A t \in Done :
        LET h == handlers[t]
        IN  (h.viaCache /\ ~h.found /\ h.ores \in NoStoreResponses)
            => /\ XCacheOf(h.out.Header) = <<MISS>>
               /\ h.nSet = 0

\* C7 as stated: with a Store and the method GET the response carries
\* X-Cache: HIT or X-Cache: MISS, and no X-Cache header otherwise.
C7_XCacheOnEveryGet ==
    \A t \in Done :
        LET h == handlers[t]
        IN  IF c /\ h.req.Method = GET
            THEN XCacheOf(h.out.Header) \in {<<HIT>>, <<MISS>>}
            ELSE XCache \notin DOMAIN h.out.Header

\* C7, amended: a response served from the Store carries X-Cache: HIT; the
\* origin's response to a request that looked the Store up and found nothing
\* carries X-Cache: MISS; the proxy gives no X-Cache header to the 502 of a
\* failed round trip nor to a response it forwards without a lookup, which
\* carries X-Cache only as the origin sent it.
C7_XCacheAfterLookup ==
    \A t \in Done :
        LET h == handlers[t]
        IN  IF h.failed THEN XCache \notin DOMAIN h.out.Header
            ELSE IF h.nGet = 1
            THEN XCacheOf(h.out.Header) = IF h.found THEN <<HIT>> ELSE <<MISS>>
            ELSE XCacheOf(h.out.Header) = XCacheOf(filterHopByHop(h.ores.Header))

\* C7, its case: with a Store, a GET has been answered without X-Cache.
C7_Witness ==
    \E t \in Done :
        /\ c /\ handlers[t].req.Method = GET
        /\ XCache \notin DOMAIN handlers[t].out.Header

(***************************************************************************)
(* Clear in a cache directory that holds files of others                   *)
(***************************************************************************)
\* Files no Set has written: "n.txt" and "n.json" in the cache directory and
\* "n.json" in the shard directory of the first key.
ForeignFiles ==
    << Append(CacheDir, <<110,46,116,120,116>>),
       Append(CacheDir, <<110,46,106,115,111,110>>),
       Append(Dir(filePathForKey(HexKey(1))), <<110,46,106,115,111,110>>) >>

ForeignPaths == {ForeignFiles[i] : i \in 1..Len(ForeignFiles)}

\* What the files of others hold.
ForeignData == <<Tok("other", <<>>, <<>>)>>

\* The cache directory with the entry files of earlier Sets for the keys of P
\* and with the files of others that F numbers.
InitClear ==
    /\ \E P \in SUBSET StoreKeys :
        \E F \in (SUBSET (1..Len(ForeignFiles))) \ {{}} :
          LET ks == SetToSorted(P)
              ino(q) == IF \E i \in F : ForeignFiles[i] = q
                        THEN Len(ks) + (CHOOSE i \in F : ForeignFiles[i] = q)
                        ELSE CHOOSE i \in 1..Len(ks) : filePathForKey(ks[i]) = q
              paths == {filePathForKey(k) : k \in P} \cup {ForeignFiles[i] : i \in F}
          IN  /\ files = [q \in paths |-> ino(q)]
              /\ inodes = [i \in {ino(q) : q \in paths} |->
                              IF i > Len(ks) THEN ForeignData ELSE Marshal(Entry1)]
              /\ dirs = {CacheDir} \cup UNION {Ancestors(Dir(q)) : q \in paths}
              /\ pub = [k \in StoreKeys |-> IF k \in P THEN Published(Entry1) ELSE Absent]
    /\ noperm = {}
    /\ locks = <<>>
    /\ locked = {}
    /\ tasks = [t \in Tasks |-> IdleTask]
    /\ calls = 0
    /\ NoProxy

NextClear ==
    /\ \E t \in Tasks :
          \/ CallClear(t)
          \/ ClearVisit(t)
          \/ \E k \in StoreKeys : CallGet(t, k)
          \/ GetOpen(t)
          \/ GetRead(t)
    /\ UNCHANGED <<noperm, c, handlers, first, served, fn>>

SpecClear == InitClear /\ [][NextClear]_vars

\* The files of others that a path of the cache directory still names, with
\* what they held.
ForeignLeft == {q \in ForeignPaths : q \in DOMAIN files /\ inodes[files[q]] = ForeignData}

\* The proxy with a Store whose Sets may fail, before requests that are
\* eligible or not and an origin that answers.
SetFailRequests == {ReqPlain, ReqPost}
SetFailResponses == {ResPage, ResNotFound}

InitSetFails == Init /\ c = TRUE

NextSetFails ==
    /\ \E t \in Tasks :
          \/ \E req \in SetFailRequests : Handle(t, req)
          \/ HandlerStoreStep(t)
          \/ SetFault(t) /\ UNCHANGED <<noperm, c, handlers, first, served>>
          \/ AfterGet(t)
          \/ \E ores \in SetFailResponses : RoundTrip(t, "", ores)
          \/ AfterSet(t)
    /\ UNCHANGED fn

SpecSetFails == InitSetFails /\ [][NextSetFails]_vars

\* C17: on the miss path, when Set has returned an error, the failure has
\* been logged (a line other than the one written for every request), and the
\* client has the origin's status, its whole body and X-Cache: MISS.
C17_SetErrorLoggedAndRelayed ==
    \A t \in Done :
        LET h == handlers[t]
        IN  (h.nSet = 1 /\ h.setErr # "")
            => /\ \E i \in 1..Len(h.logs) : h.logs[i] # "access"
               /\ h.out.Status = h.ores.Status
               /\ h.out.Body = h.ores.Body
               /\ XCacheOf(h.out.Header) = <<MISS>>

\* C17 without the log: when Set has returned an error, the client has the
\* origin's status, its whole body and X-Cache: MISS.
C17_SetErrorRelayed ==
    \A t \in Done :
        LET h == handlers[t]
        IN  (h.nSet = 1 /\ h.setErr # "")
            => /\ h.out.Status = h.ores.Status
               /\ h.out.Body = h.ores.Body
               /\ XCacheOf(h.out.Header) = <<MISS>>

\* C16: on the miss path with a response that is not no-store, nothing of
\* the response has been relayed while Set is under way, and once it has been
\* relayed Set has been called and has returned, the key holding an entry
\* when it returned nil; a like eligible request that starts after a client
\* received the MISS of a Set that returned nil is answered HIT, without a
\* round trip to the origin.
C16_SetBeforeRelay ==
    /\ \A t \in Tasks :
          handlers[t].hpc = "set" => handlers[t].out = NoResponse
    /\ \A t \in Done :
          LET h == handlers[t]
          IN  /\ ( /\ h.viaCache /\ ~h.found /\ h.fault = ""
                   /\ h.ores \notin NoStoreResponses )
                 => h.nSet = 1 /\ ~InProgress(tasks[t])
              /\ (h.nSet = 1 /\ h.setErr = "") => PubOf(pub, h.key).present
              /\ h.stored0
                 => /\ XCacheOf(h.out.Header) = <<HIT>>
                    /\ h.nOrigin = 0

\* C16, its case: a request that started after a like one had been answered
\* MISS and stored has been answered, while another one is in its Set.
C16_Witness ==
    \E t \in Done, u \in Tasks :
        /\ handlers[t].stored0 /\ handlers[t].found
        /\ handlers[u].hpc = "set" /\ InProgress(tasks[u])

\* The task is between mu.Lock() and mu.Unlock() of a Set or a Delete.
InCritical(t) == tasks[t].pc \in {"set_create", "set_write", "set_rename", "del_remove"}

\* C18: a key that has a mutex keeps that very mutex; a task that took the
\* mutex of its key has the one the Store holds for the key; no two tasks are
\* in the critical section of Set or Delete for one key together; a Get holds
\* no mutex and its next step never waits; a Set or Delete that waits for its
\* lock can take it unless another task is in the critical section for the
\* same key.
C18_OneMutexPerKey ==
    /\ [][\A k \in DOMAIN locks : k \in DOMAIN locks' /\ locks'[k] = locks[k]]_vars
    /\ [](\A t \in Tasks :
            /\ tasks[t].mu # NoMutex
               => /\ tasks[t].key \in DOMAIN locks
                  /\ tasks[t].mu = locks[tasks[t].key]
            /\ InCritical(t) => tasks[t].mu \in locked
            /\ \A u \in Tasks \ {t} :
                  InCritical(t) /\ InCritical(u) => tasks[t].key # tasks[u].key
            /\ tasks[t].op = "Get" => tasks[t].mu = NoMutex
            /\ tasks[t].pc = "get_open" => ENABLED GetOpen(t)
            /\ tasks[t].pc = "get_read" => ENABLED GetRead(t)
            /\ ( /\ tasks[t].pc = "lock"
                 /\ \A u \in Tasks \ {t} : InCritical(u) => tasks[u].key # tasks[t].key )
               => ENABLED Lock(t))

\* C18, its case: two tasks came to a key that had no mutex; the mutex one of
\* them allocated is the one the other holds in its critical section, and the
\* first waits for it.
C18_Witness ==
    \E t, u \in Tasks :
        /\ t # u /\ tasks[t].key = tasks[u].key
        /\ InCritical(t) /\ tasks[u].pc = "lock"
        /\ tasks[t].mu = tasks[u].mu /\ tasks[u].mu.by = u

\* C18, its other case: two tasks are in the critical sections for two keys
\* together.
C18_Apart ==
    \E t, u \in Tasks :
        /\ t # u /\ InCritical(t) /\ InCritical(u)
        /\ tasks[t].key # tasks[u].key

\* C19: a request answered from the entry that a like request's MISS stored
\* gets the status and the body the MISS relayed, X-Cache with the one value
\* HIT, and for every other header name the MISS relayed, and no other, the
\* same values in the same order.
C19_HitReproducesMiss ==
    \A t \in Done :
        LET h == handlers[t]
        IN  h.hasPrior
            => /\ h.out.Status = h.priorOut.Status
               /\ h.out.Body = h.priorOut.Body
               /\ DOMAIN h.out.Header = DOMAIN h.priorOut.Header
               /\ XCacheOf(h.priorOut.Header) = <<MISS>>
               /\ XCacheOf(h.out.Header) = <<HIT>>
               /\ \A n \in DOMAIN h.out.Header \ {XCache} :
                     h.out.Header[n] = h.priorOut.Header[n]

\* What Get(key) returns when it runs with no other call under way.
GetAlone(key) ==
    LET path == filePathForKey(key)
        u == Unmarshal(inodes[files[path]])
    IN  IF path \in dirs THEN Result(ZeroEntry, FALSE, 0, "read")
        ELSE IF path \notin DOMAIN files THEN Result(ZeroEntry, FALSE, 0, "")
        ELSE IF path \in noperm THEN Result(ZeroEntry, FALSE, 0, "open")
        ELSE IF u.ok THEN Result(u.e, TRUE, 0, "")
        ELSE Result(ZeroEntry, FALSE, 0, "unmarshal")

\* What Get reads for each key: whether the entry file is there, whether it
\* may be opened, and its bytes.  GetAlone is a function of these.
GetView ==
    [k \in StoreKeys |->
        LET path == filePathForKey(k)
        IN  [dir |-> path \in dirs, there |-> path \in DOMAIN files,
             noperm |-> path \in noperm,
             data |-> IF path \in DOMAIN files THEN inodes[files[path]] ELSE <<>>]]

\* The process stops with Sets under way (each at whatever step it has come to,
\* a write having put down the first n tokens of its data at most) and a new
\* process opens the cache directory: NewDiskCache, no task, no mutex.
Crash ==
    LET writing(i) == {t \in Tasks : tasks[t].pc = "set_write" /\ tasks[t].fd = i}
        cut(i, n) == LET t == CHOOSE x \in writing(i) : TRUE
                         data == Marshal(tasks[t].arg)
                     IN  WriteAt(inodes[i], SubSeq(data, 1, Min2(n, Len(data) - 1)))
    IN  /\ \E t \in Tasks : tasks[t].op = "Set" /\ InProgress(tasks[t])
        /\ tasks' = [t \in Tasks |-> IdleTask]
        /\ locks' = <<>>
        /\ locked' = {}
        /\ \E n \in 0..Len(Marshal(Entry1)) :
              inodes' = Collect([i \in DOMAIN inodes |->
                                    IF writing(i) # {} THEN cut(i, n) ELSE inodes[i]],
                                files, tasks')
        /\ UNCHANGED <<files, dirs, pub, calls>>

\* The Store with Gets and Sets, a file system that may refuse any step of a
\* Set, and a process that may stop at any step.
InitFaults == InitStore

NextFaults ==
    /\ \/ \E t \in Tasks :
             \/ \E k \in StoreKeys : CallGet(t, k)
             \/ \E k \in StoreKeys : CallSet(t, k, FALSE, Entry2)
             \/ GetOpen(t)
             \/ GetRead(t)
             \/ SetMkdir(t)
             \/ lockFor(t)
             \/ Lock(t)
             \/ SetCreate(t)
             \/ SetWrite(t)
             \/ SetRename(t)
             \/ SetFault(t)
       \/ Crash
    /\ UNCHANGED <<noperm, c, handlers, first, served, fn>>

SpecFaults == InitFaults /\ [][NextFaults]_vars

\* The step is one of a Set of task t that does not end it with a nil error:
\* a step before the rename, a step that returns an error, or the stop of
\* the process.
UnfinishedSetStep(t) ==
    /\ tasks[t].op = "Set" /\ InProgress(tasks[t])
    /\ tasks'[t] # tasks[t]
    /\ ~(tasks'[t].pc = "ret" /\ tasks'[t].ret.err = "")

\* C20: a step of Set(K, E) that returns an error, and any step at which a Set
\* may be abandoned (directory creation, serialization, temp-file write, the
\* stop of the process before the rename), leaves what Get returns for K and
\* for every other key as it was, and the entries published as they were.
C20_FailedSetChangesNothing ==
    [][(\E t \in Tasks : UnfinishedSetStep(t)) => (GetView' = GetView /\ pub' = pub)]_vars

\* C20, its case: a Set for a key that holds an entry has left a temp file
\* with a part of its data, by a failed write or the stop of the process, no
\* Set is under way, and Get returns the entry the key held.
C20_Witness ==
    \E k \in StoreKeys :
        LET tmp == tmpPathFor(filePathForKey(k))
        IN  /\ tmp \in DOMAIN files
            /\ inodes[files[tmp]] # <<>>
            /\ ~Unmarshal(inodes[files[tmp]]).ok
            /\ \A t \in Tasks : ~InProgress(tasks[t])
            /\ GetAlone(k) = Result(Entry1, TRUE, 0, "")

C11_ClearLeavesOthers ==
    \A t \in DoneClears :
        tasks[t].ret.err = "" =>
            /\ Cardinality(ForeignLeft) = tasks[t].f0 - tasks[t].n0
            /\ tasks[t].ret.n <= tasks[t].n0

\* ---------------------------------------------------------------------------
\* Functions called on their own.

\* Nothing but the function runs: no Store, no proxy.
NoProgram ==
    /\ files = <<>> /\ inodes = <<>> /\ dirs = {} /\ noperm = {}
    /\ locks = <<>> /\ locked = {}
    /\ tasks = [t \in Tasks |-> IdleTask]
    /\ pub = <<>> /\ calls = 0
    /\ c = FALSE
    /\ handlers = [t \in Tasks |-> IdleHandler]
    /\ first = <<>> /\ served = 0

\* BuildCacheKey(originBase, r) for two requests and one origin base.
InitKey ==
    /\ \E r1, r2 \in KeyRequests :
          fn = [op |-> "BuildCacheKey", args |-> <<r1, r2>>, ret |-> <<>>]
    /\ NoProgram

CallBuildCacheKey ==
    /\ fn.op = "BuildCacheKey" /\ fn.ret = <<>>
    /\ fn' = [fn EXCEPT !.ret = <<BuildCacheKey(OriginBase, fn.args[1]),
                                  BuildCacheKey(OriginBase, fn.args[2])>>]
    /\ UNCHANGED <<files, inodes, dirs, noperm, locks, locked, tasks, pub, calls,
                   c, handlers, first, served>>

NextKey == CallBuildCacheKey

SpecKey == InitKey /\ [][NextKey]_vars

\* All the lines of a request's Accept header, in order.
AcceptLines(r) == IF Accept \in DOMAIN r.Header THEN r.Header[Accept] ELSE <<>>

\* C13: for one origin base, BuildCacheKey gives two requests the same key
\* when their method, their resolved path (the base path joined to the
\* request path with a single slash), their query string and their Accept
\* header are the same, and different keys when one of these differs.
C13_KeyIffSame ==
    (fn.op = "BuildCacheKey" /\ fn.ret # <<>>)
    => LET r1 == fn.args[1]
           r2 == fn.args[2]
       IN  (fn.ret[1] = fn.ret[2])
           <=> /\ r1.Method = r2.Method
               /\ singleJoiningSlash(OriginBase.Path, r1.Path)
                    = singleJoiningSlash(OriginBase.Path, r2.Path)
               /\ r1.RawQuery = r2.RawQuery
               /\ AcceptLines(r1) = AcceptLines(r2)

\* filterHopByHop(h), applied to a header set and then to its own result.
MaxApply == 2

XFoo == <<88,45,70,111,111>>
XBar == <<88,45,66,97,114>>
One == <<49>>
Two == <<50>>

\* The Connection lines of the header sets: none, "close", one naming X-Foo
\* in lower case among spaces and empty parts, and two lines of which the
\* second names X-Foo.
ConnectionLines ==
    { <<>>, <<<<99,108,111,115,101>>>>, <<<<120,45,102,111,111>>>>, <<<<32,99,108,111,115,101,32,44,44,32,120,45,102,111,111,32>>>>,
      <<<<99,108,111,115,101>>, <<88,45,70,111,111>>>>, <<<<120,45,98,97,114>>, <<120,45,102,111,111>>>> }

\* The hop-by-hop lines of the header sets: none, Keep-Alive alone, and one
\* line for each name of hopHeaders but Connection.
HopLines ==
    { EmptyHeader, (hopHeaders[3] :> <<One>>),
      [n \in {CanonicalMIMEHeaderKey(hopHeaders[i]) : i \in 2..Len(hopHeaders)} |-> <<One>>] }

FilterHeaders ==
    { (IF cl = <<>> THEN EmptyHeader ELSE (Connection :> cl)) @@ hl @@ xf @@ xb @@ ct :
        cl \in ConnectionLines, hl \in HopLines,
        xf \in {EmptyHeader, (XFoo :> <<One>>)},
        xb \in {EmptyHeader, (XBar :> <<Two, One>>)},
        ct \in {EmptyHeader, (ContentType :> <<TextHtml>>)} }

InitFilter ==
    /\ \E h \in FilterHeaders : fn = [op |-> "filterHopByHop", args |-> <<h>>, ret |-> <<>>]
    /\ NoProgram

CallFilterHopByHop ==
    /\ fn.op = "filterHopByHop" /\ Len(fn.ret) < MaxApply
    /\ fn' = [fn EXCEPT !.ret = Append(@, filterHopByHop(IF @ = <<>> THEN fn.args[1]
                                                         ELSE @[Len(@)]))]
    /\ UNCHANGED <<files, inodes, dirs, noperm, locks, locked, tasks, pub, calls,
                   c, handlers, first, served>>

NextFilter == CallFilterHopByHop

SpecFilter == InitFilter /\ [][NextFilter]_vars

\* The nine hop-by-hop header names, as keys of a header set.
NineHopNames ==
    { <<67,111,110,110,101,99,116,105,111,110>>,
      <<80,114,111,120,121,45,67,111,110,110,101,99,116,105,111,110>>,
      <<75,101,101,112,45,65,108,105,118,101>>,
      <<80,114,111,120,121,45,65,117,116,104,101,110,116,105,99,97,116,101>>,
      <<80,114,111,120,121,45,65,117,116,104,111,114,105,122,97,116,105,111,110>>,
      <<84,101>>,
      <<84,114,97,105,108,101,114>>,
      <<84,114,97,110,115,102,101,114,45,69,110,99,111,100,105,110,103>>,
      <<85,112,103,114,97,100,101>> }

\* The headers of h that a part of one of h's Connection lines names.
NamedByConnection(h) ==
    IF Connection \notin DOMAIN h THEN {}
    ELSE {n \in DOMAIN h :
            \E i \in 1..Len(h[Connection]) :
                LET parts == Split(h[Connection][i], 44)
                IN  \E j \in 1..Len(parts) : EqualFold(TrimSpace(parts[j]), n)}

\* C14: after filterHopByHop the header set has none of the nine hop-by-hop
\* names and none of the headers a Connection line of the input names, and
\* every other header of the input is there with its values as they were.
C14_HopByHopRemoved ==
    (fn.op = "filterHopByHop" /\ fn.ret # <<>>)
    => LET h == fn.args[1]
           out == fn.ret[1]
           gone == (NineHopNames \cup NamedByConnection(h)) \cap DOMAIN h
       IN  /\ DOMAIN out = DOMAIN h \ gone
           /\ \A n \in DOMAIN out : out[n] = h[n]

\* C15: filterHopByHop is idempotent: applied to its own result it changes
\* nothing.
C15_Idempotent ==
    (fn.op = "filterHopByHop" /\ Len(fn.ret) >= 2)
    => \A i \in 2..Len(fn.ret) : fn.ret[i] = fn.ret[1]

\* C15, its case: a first application removed Connection, the header it
\* named and a hop-by-hop header and left a header that a second Connection
\* line named, and a second application followed.
C15_Witness ==
    /\ fn.op = "filterHopByHop" /\ Len(fn.ret) = 2
    /\ {Connection, XBar, hopHeaders[3], XFoo} \subseteq DOMAIN fn.args[1]
    /\ XFoo \in DOMAIN fn.ret[1]
    /\ {Connection, XBar, hopHeaders[3]} \cap DOMAIN fn.ret[1] = {}

=============================================================================
